---- MODULE Spec2Model ----
(***************************************************************************)
(* Model of the AI Agent API service (AIAgentService/src/api/main.py):     *)
(* the keyword intent extractor, the rule-based wireframe synthesizer and  *)
(* the optional bearer-token gate in front of the two POST endpoints.      *)
(*                                                                         *)
(* Text is modelled as sequences of one-character strings so that          *)
(* lower-casing, stripping, substring search and the regular expression    *)
(* \b<syn>\b are computed character by character.  Scores are integers in  *)
(* thousandths (1.0 = 1000, 0.8 = 800), confidences in hundredths          *)
(* (1.0 = 100, 0.8 = 80, 0.1 = 10).                                         *)
(***************************************************************************)
EXTENDS Integers, Sequences, FiniteSets, TLC

VARIABLES
    AI_API_KEY,     \* value of the environment variable (None when unset)
    authorization,  \* Authorization header of the last request (None: absent)
    prompt_parts,   \* "prompt" field of the request body, as the pieces written
    body_intents,   \* "intents" field of the request body
    response,       \* response to the last request (status 0: none yet)
    core,           \* history: the core function the last request executed
    prev            \* history: summary of the wireframe call before the last

vars == <<AI_API_KEY, authorization, prompt_parts, body_intents, response, core, prev>>

-----------------------------------------------------------------------------
(* Bounds of the model *)

MaxFrags == 3        \* pieces a prompt is assembled from
MaxIntents == 2      \* intents in a wireframe request
NumEntropy == 2      \* outcomes of the random source behind uuid4, per call

-----------------------------------------------------------------------------
(* Python values and str methods *)

None == <<"None">>   \* distinct from every character sequence

NoValue == "None"    \* the None of an intent's value field

AsciiUpper ==
    <<"A","B","C","D","E","F","G","H","I","J","K","L","M",
      "N","O","P","Q","R","S","T","U","V","W","X","Y","Z">>

AsciiLower ==
    <<"a","b","c","d","e","f","g","h","i","j","k","l","m",
      "n","o","p","q","r","s","t","u","v","w","x","y","z">>

Digits == {"0","1","2","3","4","5","6","7","8","9"}

Whitespace == {" ", "\t", "\n", "\r"}

Range(s) == {s[i] : i \in 1..Len(s)}

\* the lower-case letter of every upper-case letter
LowerOf ==
    [c \in Range(AsciiUpper) |->
        AsciiLower[CHOOSE i \in 1..Len(AsciiUpper) : AsciiUpper[i] = c]]

\* str.lower() on one character
LowerChar(c) == IF c \in DOMAIN LowerOf THEN LowerOf[c] ELSE c

\* str.lower()
StrLower(s) == [i \in 1..Len(s) |-> LowerChar(s[i])]

\* str.strip()
StrStrip(s) ==
    LET keep == {i \in 1..Len(s) : s[i] \notin Whitespace}
    IN  IF keep = {} THEN <<>>
        ELSE SubSeq(s, CHOOSE i \in keep : \A j \in keep : i <= j,
                       CHOOSE i \in keep : \A j \in keep : i >= j)

\* s.startswith(p)
StartsWith(s, p) ==
    /\ Len(p) <= Len(s)
    /\ \A k \in 1..Len(p) : s[k] = p[k]

\* p occurs in s starting at index i, for i in 1..(Len(s) - Len(p) + 1)
OccursAt(s, p, i) == SubSeq(s, i, i + Len(p) - 1) = p

\* p in s
StrContains(s, p) == \E i \in 1..(Len(s) - Len(p) + 1) : OccursAt(s, p, i)

\* the characters \w of the re module matches
WordChars == Range(AsciiLower) \cup Range(AsciiUpper) \cup Digits \cup {"_"}

IsWordChar(c) == c \in WordChars

\* \b of the re module at the gap after index i (0: before the first character)
WordBoundary(s, i) ==
    LET left  == i >= 1 /\ i <= Len(s) /\ IsWordChar(s[i])
        right == i + 1 >= 1 /\ i + 1 <= Len(s) /\ IsWordChar(s[i + 1])
    IN  left # right

\* re.search(rf"\b{re.escape(syn)}\b", s)
ReSearchWord(s, syn) ==
    \E i \in 1..(Len(s) - Len(syn) + 1) :
        /\ OccursAt(s, syn, i)
        /\ WordBoundary(s, i - 1)
        /\ WordBoundary(s, i - 1 + Len(syn))

\* round(x, 2): thousandths to hundredths, ties to even
Round2(x) ==
    LET q == x \div 10
        r == x % 10
    IN  IF r > 5 \/ (r = 5 /\ q % 2 = 1) THEN q + 1 ELSE q

-----------------------------------------------------------------------------
(* Intent extraction *)

_KEYWORDS == <<
    [type |-> "login", synonyms |-> <<
        <<"l","o","g","i","n">>,
        <<"s","i","g","n"," ","i","n">>,
        <<"s","i","g","n","i","n">> >>],
    [type |-> "dashboard", synonyms |-> <<
        <<"d","a","s","h","b","o","a","r","d">>,
        <<"o","v","e","r","v","i","e","w">>,
        <<"h","o","m","e"," ","s","c","r","e","e","n">> >>],
    [type |-> "list", synonyms |-> <<
        <<"l","i","s","t">>,
        <<"l","i","s","t","i","n","g">>,
        <<"i","t","e","m","s">> >>],
    [type |-> "table", synonyms |-> <<
        <<"t","a","b","l","e">>,
        <<"g","r","i","d">> >>],
    [type |-> "form", synonyms |-> <<
        <<"f","o","r","m">>,
        <<"i","n","p","u","t"," ","f","i","e","l","d","s">>,
        <<"f","i","e","l","d","s">> >>],
    [type |-> "button", synonyms |-> <<
        <<"b","u","t","t","o","n">>,
        <<"c","t","a">>,
        <<"s","u","b","m","i","t">>,
        <<"s","a","v","e">> >>],
    [type |-> "navbar", synonyms |-> <<
        <<"n","a","v","b","a","r">>,
        <<"n","a","v","i","g","a","t","i","o","n">>,
        <<"t","o","p"," ","b","a","r">>,
        <<"m","e","n","u">> >>] >>

\* the for loop of _score_match from synonym k on
RECURSIVE ScoreFrom(_, _, _)
ScoreFrom(prompt_lc, synonyms, k) ==
    IF k > Len(synonyms) THEN 0
    ELSE LET syn == StrLower(synonyms[k])
         IN  IF ReSearchWord(prompt_lc, syn) THEN 1000
             ELSE IF StrContains(prompt_lc, syn) THEN 800
             ELSE ScoreFrom(prompt_lc, synonyms, k + 1)

\* _score_match without its substring branch
RECURSIVE ScoreFromWordOnly(_, _, _)
ScoreFromWordOnly(prompt_lc, synonyms, k) ==
    IF k > Len(synonyms) THEN 0
    ELSE IF ReSearchWord(prompt_lc, StrLower(synonyms[k])) THEN 1000
    ELSE ScoreFromWordOnly(prompt_lc, synonyms, k + 1)

ScoreMatchWordOnly(prompt_lc, synonyms) == ScoreFromWordOnly(prompt_lc, synonyms, 1)

_score_match(prompt_lc, synonyms) == ScoreFrom(prompt_lc, synonyms, 1)

Intent(type, value, confidence) ==
    [type |-> type, value |-> value, confidence |-> confidence]

\* the for loop of _extract_intents_from_prompt from vocabulary entry k on
RECURSIVE ExtractFrom(_, _, _)
ExtractFrom(prompt_lc, k, acc) ==
    IF k > Len(_KEYWORDS) THEN acc
    ELSE LET score == _score_match(prompt_lc, _KEYWORDS[k].synonyms)
         IN  ExtractFrom(prompt_lc, k + 1,
                 IF score > 0
                 THEN Append(acc, Intent(_KEYWORDS[k].type, NoValue, Round2(score)))
                 ELSE acc)

\* the fallback appended without looking at what was found
UnknownAlways(found) == Append(found, Intent("unknown", NoValue, 10))

UnknownFallback(found) ==
    IF found = <<>> THEN <<Intent("unknown", NoValue, 10)>> ELSE found

\* the extractor inserting each intent at the front of the list
ExtractPrepending(p) ==
    LET found == ExtractFrom(StrLower(p), 1, <<>>)
    IN  UnknownFallback([i \in 1..Len(found) |-> found[Len(found) + 1 - i]])

_extract_intents_from_prompt(p) ==
    UnknownFallback(ExtractFrom(StrLower(p), 1, <<>>))

-----------------------------------------------------------------------------
(* Wireframe synthesis *)

HexDigits == <<"0","1","2","3","4","5","6","7","8","9","a","b","c","d","e","f">>

\* uuid.uuid4().hex[:8]: the n-th draw of a call whose random source is in
\* state entropy; draws of one call differ, and so do those of two sources
uuid4_hex8(entropy, n) ==
    "000000" \o HexDigits[entropy + 1] \o HexDigits[n + 1]

_component_id(prefix, entropy, n) == prefix \o "-" \o uuid4_hex8(entropy, n)

\* a row holding one full-width column with the given leaves; st.calls counts
\* the uuid4 draws made so far
AppendRow(entropy, st, leaves, comps) ==
    [children |-> Append(st.children,
        [type |-> "row",
         id |-> _component_id("row", entropy, st.calls),
         children |-> <<
            [type |-> "column",
             id |-> _component_id("col", entropy, st.calls + 1),
             span |-> 12,
             children |-> leaves] >>]),
     components |-> st.components \o comps,
     calls |-> st.calls + 2]

NavbarRule(recognized, entropy, st) ==
    IF "navbar" \in recognized \/ "dashboard" \in recognized
    THEN AppendRow(entropy, st, <<"navbar-1">>, <<
            [id |-> "navbar-1", type |-> "Navbar",
             props |-> [title |-> "App",
                        links |-> <<"Home", "About", "Contact">>]] >>)
    ELSE st

\* the login rule forgetting the component of its second leaf
LoginRuleFormOnly(recognized, entropy, st) ==
    IF "login" \in recognized
    THEN AppendRow(entropy, st, <<"form-1", "button-1">>, <<
            [id |-> "form-1", type |-> "Form",
             props |-> [fields |-> <<
                [id |-> "email", label |-> "Email", type |-> "email"],
                [id |-> "password", label |-> "Password", type |-> "password"] >>]] >>)
    ELSE st

LoginRule(recognized, entropy, st) ==
    IF "login" \in recognized
    THEN LET form_id == "form-1"
             btn_id  == "button-1"
         IN  AppendRow(entropy, st, <<form_id, btn_id>>, <<
                [id |-> form_id, type |-> "Form",
                 props |-> [fields |-> <<
                    [id |-> "email", label |-> "Email", type |-> "email"],
                    [id |-> "password", label |-> "Password", type |-> "password"] >>]],
                [id |-> btn_id, type |-> "Button",
                 props |-> [text |-> "Sign In", variant |-> "primary"]] >>)
    ELSE st

\* "".join(chars)
RECURSIVE StrOf(_)
StrOf(chars) == IF chars = <<>> THEN "" ELSE Head(chars) \o StrOf(Tail(chars))

\* the table/list choice preferring the list
TableOrListIdListFirst(recognized) ==
    IF "list" \in recognized
    THEN <<"l","i","s","t","-","1">>
    ELSE <<"t","a","b","l","e","-","1">>

TableOrListId(recognized) ==
    IF "table" \in recognized \/ "dashboard" \in recognized
    THEN <<"t","a","b","l","e","-","1">>
    ELSE <<"l","i","s","t","-","1">>

TableListRule(recognized, entropy, st) ==
    IF "table" \in recognized \/ "list" \in recognized \/ "dashboard" \in recognized
    THEN LET table_or_list_id == TableOrListId(recognized)
         IN  IF StartsWith(table_or_list_id, <<"t","a","b","l","e">>)
             THEN AppendRow(entropy, st, <<StrOf(table_or_list_id)>>, <<
                    [id |-> StrOf(table_or_list_id), type |-> "Table",
                     props |-> [columns |-> <<"Name", "Status", "Updated">>,
                                rows |-> <<>>]] >>)
             ELSE AppendRow(entropy, st, <<StrOf(table_or_list_id)>>, <<
                    [id |-> StrOf(table_or_list_id), type |-> "List",
                     props |-> [items |-> <<>>,
                                itemProps |-> [primaryKey |-> "title"]]] >>)
    ELSE st

\* the generic form rule without its login guard
FormRuleNoLoginGuard(recognized, entropy, st) ==
    IF "form" \in recognized
    THEN AppendRow(entropy, st, <<"form-2">>, <<
            [id |-> "form-2", type |-> "Form",
             props |-> [fields |-> <<
                [id |-> "name", label |-> "Name", type |-> "text"],
                [id |-> "description", label |-> "Description",
                 type |-> "textarea"] >>]] >>)
    ELSE st

FormRule(recognized, entropy, st) ==
    IF "form" \in recognized /\ "login" \notin recognized
    THEN LET form_id == "form-2"
         IN  AppendRow(entropy, st, <<form_id>>, <<
                [id |-> form_id, type |-> "Form",
                 props |-> [fields |-> <<
                    [id |-> "name", label |-> "Name", type |-> "text"],
                    [id |-> "description", label |-> "Description",
                     type |-> "textarea"] >>]] >>)
    ELSE st

ButtonRule(recognized, entropy, st) ==
    IF "button" \in recognized /\ "login" \notin recognized
    THEN LET btn_id == "button-2"
         IN  AppendRow(entropy, st, <<btn_id>>, <<
                [id |-> btn_id, type |-> "Button",
                 props |-> [text |-> "Submit", variant |-> "secondary"]] >>)
    ELSE st

\* the empty canvas appended unconditionally
EmptyCanvasAlways(entropy, st) == AppendRow(entropy, st, <<>>, <<>>)

EmptyCanvas(entropy, st) ==
    IF st.children = <<>>
    THEN AppendRow(entropy, st, <<>>, <<>>)
    ELSE st

\* the recognized set built from the first intent only
RecognizedFirstOnly(intent_list) ==
    IF intent_list = <<>> THEN {} ELSE {intent_list[1].type}

Recognized(intent_list) == {intent_list[i].type : i \in 1..Len(intent_list)}

_spec_from_intents(intent_list, entropy) ==
    LET recognized == Recognized(intent_list)
        wid == "wf-" \o uuid4_hex8(entropy, 0)
        st0 == [children |-> <<>>, components |-> <<>>, calls |-> 1]
        st1 == NavbarRule(recognized, entropy, st0)
        st2 == LoginRule(recognized, entropy, st1)
        st3 == TableListRule(recognized, entropy, st2)
        st4 == FormRule(recognized, entropy, st3)
        st5 == ButtonRule(recognized, entropy, st4)
        st6 == EmptyCanvas(entropy, st5)
    IN  [id |-> wid,
         layout |-> [type |-> "container", id |-> wid,
                     direction |-> "column", children |-> st6.children],
         components |-> st6.components,
         metadata |-> [generator |-> "rule-based", version |-> "1.0.0"]]

-----------------------------------------------------------------------------
(* The bearer-token gate *)

\* os.getenv("AI_API_KEY") or None
get_expected_api_key == IF AI_API_KEY = None \/ AI_API_KEY = <<>> THEN None ELSE AI_API_KEY

\* s.split(" ", 1)[1], for s holding a space
AfterFirstSpace(s) ==
    LET i == CHOOSE j \in 1..Len(s) : s[j] = " " /\ \A k \in 1..(j - 1) : s[k] # " "
    IN  SubSeq(s, i + 1, Len(s))

\* the gate without the comparison of the token
RequireBearerOnly(hdr) ==
    IF get_expected_api_key = None THEN 0
    ELSE IF hdr = None \/ hdr = <<>>
            \/ ~StartsWith(StrLower(hdr), <<"b","e","a","r","e","r"," ">>)
         THEN 401
    ELSE 0

\* 0 when the request passes, else the status of the HTTPException raised
require_api_key(hdr) ==
    LET expected == get_expected_api_key
    IN  IF expected = None THEN 0
        ELSE IF hdr = None \/ hdr = <<>>
                \/ ~StartsWith(StrLower(hdr), <<"b","e","a","r","e","r"," ">>)
             THEN 401
        ELSE IF StrStrip(AfterFirstSpace(hdr)) # expected THEN 403
        ELSE 0

-----------------------------------------------------------------------------
(* Requests *)

\* the pieces the modelled clients assemble prompts from
Fragments == {
    <<"l","o","g","i","n">>,
    <<"s","i","g","n"," ","i","n">>,
    <<"l","i","s","t">>,
    <<"i","n","g">>,
    <<"d","a","s","h","b","o","a","r","d">>,
    <<"T","a","b","l","e">>,
    <<"f","o","r","m">>,
    <<"s","a","v","e">>,
    <<"m","e","n","u">>,
    <<" ">> }

\* the intent types and values the modelled clients send
IntentTypes ==
    {"login", "dashboard", "list", "table", "form", "button", "navbar", "unknown"}

IntentValues == {NoValue, "v"}

\* the values of AI_API_KEY: unset, empty, set
ApiKeys == {None, <<>>, <<"k">>}

\* the Authorization headers the modelled clients send
Headers == {
    None,
    <<"B","e","a","r","e","r"," ","k">>,
    <<"b","e","a","r","e","r"," "," ","k"," ">>,
    <<"B","e","a","r","e","r"," ","x">>,
    <<"B","a","s","i","c"," ","k">>,
    <<"B","e","a","r","e","r">> }

RECURSIVE Flatten(_)
Flatten(parts) == IF parts = <<>> THEN <<>> ELSE Head(parts) \o Flatten(Tail(parts))

\* the prompt field as sent
RawPrompt == Flatten(prompt_parts)

\* PromptRequest.prompt: constr(strip_whitespace=True, min_length=1);
\* None when validation fails
PromptRequest(raw) ==
    LET stripped == StrStrip(raw)
    IN  IF Len(stripped) >= 1 THEN stripped ELSE None

WireframeIntent(type, value) == [type |-> type, value |-> value]

NoResponse == [status |-> 0, endpoint |-> "", body |-> [detail |-> ""]]

NoPrev == [called |-> FALSE]

Respond(status, endpoint, body) ==
    [status |-> status, endpoint |-> endpoint, body |-> body]

Denied(status, endpoint) ==
    Respond(status, endpoint,
        [detail |-> IF status = 401 THEN "Missing or invalid Authorization header"
                    ELSE "Invalid API key"])

-----------------------------------------------------------------------------
(* Actions *)

Init ==
    /\ AI_API_KEY \in ApiKeys
    /\ authorization = None
    /\ prompt_parts = <<>>
    /\ body_intents = <<>>
    /\ response = NoResponse
    /\ core = "none"
    /\ prev = NoPrev

\* a client writes one more piece of the prompt of an /interpret request
WritePrompt(frag) ==
    /\ response.status = 0
    /\ body_intents = <<>>
    /\ Len(prompt_parts) < MaxFrags
    /\ prompt_parts' = Append(prompt_parts, frag)
    /\ UNCHANGED <<AI_API_KEY, authorization, body_intents, response, core, prev>>

\* a client adds one more intent to the body of a /specify-wireframe request
WriteIntent(type, value) ==
    /\ response.status = 0
    /\ prompt_parts = <<>>
    /\ Len(body_intents) < MaxIntents
    /\ body_intents' = Append(body_intents, WireframeIntent(type, value))
    /\ UNCHANGED <<AI_API_KEY, authorization, prompt_parts, response, core, prev>>

\* POST /interpret
interpret_prompt(hdr) ==
    /\ response.status = 0
    /\ body_intents = <<>>
    /\ authorization' = hdr
    /\ LET denied  == require_api_key(hdr)
           payload == PromptRequest(RawPrompt)
       IN  IF denied # 0
           THEN /\ response' = Denied(denied, "/interpret")
                /\ core' = "none"
           ELSE IF payload = None
           THEN /\ response' = Respond(422, "/interpret", [detail |-> "validation error"])
                /\ core' = "none"
           ELSE /\ response' = Respond(200, "/interpret",
                        [intents |-> _extract_intents_from_prompt(payload)])
                /\ core' = "_extract_intents_from_prompt"
    /\ UNCHANGED <<AI_API_KEY, prompt_parts, body_intents, prev>>

\* POST /specify-wireframe
specify_wireframe(hdr, entropy) ==
    /\ response.status = 0
    /\ prompt_parts = <<>>
    /\ authorization' = hdr
    /\ LET denied == require_api_key(hdr)
       IN  IF denied # 0
           THEN /\ response' = Denied(denied, "/specify-wireframe")
                /\ core' = "none"
           ELSE /\ response' = Respond(200, "/specify-wireframe",
                        [wireframe_spec |-> _spec_from_intents(body_intents, entropy)])
                /\ core' = "_spec_from_intents"
    /\ UNCHANGED <<AI_API_KEY, prompt_parts, body_intents, prev>>

\* the request is over; the service keeps nothing of it
EndRequest ==
    /\ response.status # 0
    /\ authorization' = None
    /\ prompt_parts' = <<>>
    /\ body_intents' = <<>>
    /\ response' = NoResponse
    /\ core' = "none"
    /\ UNCHANGED AI_API_KEY

Next ==
    \/ \E frag \in Fragments : WritePrompt(frag)
    \/ \E type \in IntentTypes, value \in IntentValues : WriteIntent(type, value)
    \/ \E hdr \in Headers : interpret_prompt(hdr)
    \/ \E hdr \in Headers, entropy \in 0..(NumEntropy - 1) : specify_wireframe(hdr, entropy)
    \/ EndRequest /\ UNCHANGED prev

Spec == Init /\ [][Next]_vars

-----------------------------------------------------------------------------
(* The two core functions behind an open gate: AI_API_KEY unset, no header *)

InitCore == Init /\ AI_API_KEY = None

NextCore ==
    \/ \E frag \in Fragments : WritePrompt(frag)
    \/ \E type \in IntentTypes, value \in IntentValues : WriteIntent(type, value)
    \/ interpret_prompt(None)
    \/ \E entropy \in 0..(NumEntropy - 1) : specify_wireframe(None, entropy)
    \/ EndRequest /\ UNCHANGED prev

SpecCore == InitCore /\ [][NextCore]_vars

-----------------------------------------------------------------------------
(* Two calls of the synthesizer, one after the other *)

\* what is remembered of a finished /specify-wireframe call
CallSummary ==
    [called |-> TRUE,
     types |-> {body_intents[i].type : i \in 1..Len(body_intents)},
     n_intents |-> Len(body_intents),
     components |-> response.body.wireframe_spec.components,
     rows |-> [r \in 1..Len(response.body.wireframe_spec.layout.children) |->
                 [c \in 1..Len(response.body.wireframe_spec.layout.children[r].children) |->
                     response.body.wireframe_spec.layout.children[r].children[c].children]]]

\* the request is over; the observer remembers the call it made
EndCall ==
    /\ EndRequest
    /\ prev' = IF response.status = 200 /\ response.endpoint = "/specify-wireframe"
               THEN CallSummary
               ELSE prev

InitTwoCalls == Init /\ AI_API_KEY = None

NextTwoCalls ==
    \/ \E type \in IntentTypes, value \in IntentValues : WriteIntent(type, value)
    \/ \E entropy \in 0..(NumEntropy - 1) : specify_wireframe(None, entropy)
    \/ EndCall

SpecTwoCalls == InitTwoCalls /\ [][NextTwoCalls]_vars

-----------------------------------------------------------------------------
(* Properties of the intent extractor *)

Interpreted == response.status = 200 /\ response.endpoint = "/interpret"

\* the lower-cased prompt the extractor searched
PromptLc == StrLower(PromptRequest(RawPrompt))

Extracted == response.body.intents

\* some synonym of vocabulary entry k occurs between word boundaries
BoundedHit(k) ==
    \E j \in 1..Len(_KEYWORDS[k].synonyms) :
        ReSearchWord(PromptLc, _KEYWORDS[k].synonyms[j])

\* some synonym of vocabulary entry k occurs as a substring
SubstringHit(k) ==
    \E j \in 1..Len(_KEYWORDS[k].synonyms) :
        StrContains(PromptLc, _KEYWORDS[k].synonyms[j])

\* the confidences (hundredths) of the extracted intents of a type
ConfidencesOf(type) ==
    {Extracted[i].confidence : i \in {n \in 1..Len(Extracted) : Extracted[n].type = type}}

\* C1: whenever any synonym of a vocabulary type occurs in the lower-cased
\* prompt between word boundaries, the extractor returns an intent of that
\* type with confidence 1.0, also when an earlier synonym of the type occurs
\* only as an unbounded substring.
C1_BoundedSynonymScoresOne ==
    Interpreted =>
        \A k \in 1..Len(_KEYWORDS) :
            BoundedHit(k) => 100 \in ConfidencesOf(_KEYWORDS[k].type)

\* C2: a type whose synonyms occur in the lower-cased prompt only as
\* substrings, none between word boundaries, is returned with confidence
\* exactly 0.8: never 1.0 and never omitted.
C2_SubstringOnlyScoresPointEight ==
    Interpreted =>
        \A k \in 1..Len(_KEYWORDS) :
            (SubstringHit(k) /\ ~BoundedHit(k)) =>
                ConfidencesOf(_KEYWORDS[k].type) = {80}

C2_Witness ==
    /\ Interpreted
    /\ \E k \in 1..Len(_KEYWORDS) :
        /\ SubstringHit(k)
        /\ ~BoundedHit(k)
        /\ ConfidencesOf(_KEYWORDS[k].type) = {80}

NoKeyword == \A k \in 1..Len(_KEYWORDS) : ~SubstringHit(k)

UnknownOnly == Extracted = <<[type |-> "unknown", value |-> NoValue, confidence |-> 10]>>

\* C3: the extractor returns exactly the one intent {unknown, none, 0.1} if
\* and only if no synonym of any vocabulary type occurs in the lower-cased
\* prompt; when a type matches, the result holds no "unknown" intent.
C3_UnknownIffNoKeyword ==
    Interpreted =>
        /\ UnknownOnly <=> NoKeyword
        /\ ~NoKeyword => \A i \in 1..Len(Extracted) : Extracted[i].type # "unknown"

C3_Witness ==
    /\ Interpreted
    /\ NoKeyword
    /\ UnknownOnly
    /\ Len(PromptLc) >= 3

\* the vocabulary in declaration order
VocabularyOrder == <<"login", "dashboard", "list", "table", "form", "button", "navbar">>

VocabularyIndex(type) ==
    IF \E n \in 1..Len(VocabularyOrder) : VocabularyOrder[n] = type
    THEN CHOOSE n \in 1..Len(VocabularyOrder) : VocabularyOrder[n] = type
    ELSE 0

\* index of the first occurrence of p in s (0: none)
FirstIndex(s, p) ==
    IF StrContains(s, p)
    THEN CHOOSE i \in 1..Len(s) : OccursAt(s, p, i) /\ \A j \in 1..(i - 1) : ~OccursAt(s, p, j)
    ELSE 0

\* C4: the returned list is never empty, holds each intent type at most
\* once, and lists the matched types in vocabulary declaration order,
\* whatever the order of the keywords in the prompt.
C4_NonEmptyDistinctVocabularyOrder ==
    Interpreted =>
        /\ Len(Extracted) >= 1
        /\ \A i, j \in 1..Len(Extracted) :
            i < j => /\ Extracted[i].type # Extracted[j].type
                     /\ VocabularyIndex(Extracted[i].type) >= 1
                     /\ VocabularyIndex(Extracted[i].type) < VocabularyIndex(Extracted[j].type)

\* two synonyms of login occur, after a navbar keyword
C4_Witness ==
    /\ Interpreted
    /\ StrContains(PromptLc, <<"l","o","g","i","n">>)
    /\ StrContains(PromptLc, <<"s","i","g","n"," ","i","n">>)
    /\ FirstIndex(PromptLc, <<"m","e","n","u">>) >= 1
    /\ FirstIndex(PromptLc, <<"m","e","n","u">>) < FirstIndex(PromptLc, <<"l","o","g","i","n">>)
    /\ FirstIndex(PromptLc, <<"m","e","n","u">>) < FirstIndex(PromptLc, <<"s","i","g","n"," ","i","n">>)
    /\ Len(Extracted) = 2
    /\ Extracted[1].type = "login"
    /\ Extracted[2].type = "navbar"

-----------------------------------------------------------------------------
(* Properties of the wireframe synthesizer *)

Specified == response.status = 200 /\ response.endpoint = "/specify-wireframe"

Wireframe == response.body.wireframe_spec

\* the set of type strings of the request's intents
SentTypes == {body_intents[i].type : i \in 1..Len(body_intents)}

\* the leaf references of a layout: <<row, column, position>> triples
LeafRefs(layout) ==
    {<<r, c, n>> \in (1..Len(layout.children)) \X (1..1) \X (1..2) :
        /\ c <= Len(layout.children[r].children)
        /\ n <= Len(layout.children[r].children[c].children)}

LeafAt(layout, ref) == layout.children[ref[1]].children[ref[2]].children[ref[3]]

\* every row has one column and at most two leaves, so LeafRefs misses none
RowsWellFormed(layout) ==
    \A r \in 1..Len(layout.children) :
        /\ layout.children[r].type = "row"
        /\ Len(layout.children[r].children) = 1
        /\ layout.children[r].children[1].type = "column"
        /\ layout.children[r].children[1].span = 12
        /\ Len(layout.children[r].children[1].children) <= 2

\* the leaf ids of each row, in order
LeafRows(layout) ==
    [r \in 1..Len(layout.children) |-> layout.children[r].children[1].children]

ComponentsWithId(spec, id) ==
    {n \in 1..Len(spec.components) : spec.components[n].id = id}

HasComponent(spec, id) == ComponentsWithId(spec, id) # {}

ComponentOf(spec, id) == spec.components[CHOOSE n \in ComponentsWithId(spec, id) : TRUE]

\* C5: every leaf id referenced in a column appears exactly once in the
\* components list, and every component is referenced by exactly one leaf.
C5_LeavesAndComponentsCorrespond ==
    Specified =>
        /\ RowsWellFormed(Wireframe.layout)
        /\ \A ref \in LeafRefs(Wireframe.layout) :
            Cardinality(ComponentsWithId(Wireframe, LeafAt(Wireframe.layout, ref))) = 1
        /\ \A n \in 1..Len(Wireframe.components) :
            Cardinality({ref \in LeafRefs(Wireframe.layout) :
                LeafAt(Wireframe.layout, ref) = Wireframe.components[n].id}) = 1

\* a login row with two leaves next to other rows
C5_Witness ==
    /\ Specified
    /\ Len(Wireframe.components) >= 3
    /\ \E r \in 1..Len(Wireframe.layout.children) :
        Len(Wireframe.layout.children[r].children[1].children) = 2

\* C7: with "login" recognized the components hold Form "form-1" and Button
\* "button-1" (text "Sign In") in one shared row and never "form-2" or
\* "button-2"; without it, "form-2" is present exactly when "form" is
\* recognized, "button-2" (text "Submit") exactly when "button" is, and
\* "form-1"/"button-1" never.
C7_LoginExclusion ==
    Specified =>
        IF "login" \in SentTypes
        THEN /\ HasComponent(Wireframe, "form-1")
             /\ ComponentOf(Wireframe, "form-1").type = "Form"
             /\ HasComponent(Wireframe, "button-1")
             /\ ComponentOf(Wireframe, "button-1").type = "Button"
             /\ ComponentOf(Wireframe, "button-1").props.text = "Sign In"
             /\ \E r \in 1..Len(Wireframe.layout.children) :
                    LeafRows(Wireframe.layout)[r] = <<"form-1", "button-1">>
             /\ ~HasComponent(Wireframe, "form-2")
             /\ ~HasComponent(Wireframe, "button-2")
        ELSE /\ HasComponent(Wireframe, "form-2") <=> "form" \in SentTypes
             /\ HasComponent(Wireframe, "form-2") =>
                    ComponentOf(Wireframe, "form-2").type = "Form"
             /\ HasComponent(Wireframe, "button-2") <=> "button" \in SentTypes
             /\ HasComponent(Wireframe, "button-2") =>
                    /\ ComponentOf(Wireframe, "button-2").type = "Button"
                    /\ ComponentOf(Wireframe, "button-2").props.text = "Submit"
             /\ ~HasComponent(Wireframe, "form-1")
             /\ ~HasComponent(Wireframe, "button-1")

\* login sent together with form and button
C7_Witness ==
    /\ Specified
    /\ {"login", "form"} \subseteq SentTypes
    /\ HasComponent(Wireframe, "form-1")
    /\ ~HasComponent(Wireframe, "form-2")

\* C8: at most one of "table-1" and "list-1" is present; "table-1" (Table)
\* exactly when "table" or "dashboard" is recognized; "list-1" (List) exactly
\* when "list" is recognized and neither "table" nor "dashboard" is;
\* "navbar-1" exactly when "navbar" or "dashboard" is recognized.
C8_TableListNavbarChoice ==
    Specified =>
        /\ ~(HasComponent(Wireframe, "table-1") /\ HasComponent(Wireframe, "list-1"))
        /\ HasComponent(Wireframe, "table-1") <=>
                ("table" \in SentTypes \/ "dashboard" \in SentTypes)
        /\ HasComponent(Wireframe, "table-1") =>
                ComponentOf(Wireframe, "table-1").type = "Table"
        /\ HasComponent(Wireframe, "list-1") <=>
                /\ "list" \in SentTypes
                /\ "table" \notin SentTypes
                /\ "dashboard" \notin SentTypes
        /\ HasComponent(Wireframe, "list-1") =>
                ComponentOf(Wireframe, "list-1").type = "List"
        /\ HasComponent(Wireframe, "navbar-1") <=>
                ("navbar" \in SentTypes \/ "dashboard" \in SentTypes)
        /\ HasComponent(Wireframe, "navbar-1") =>
                ComponentOf(Wireframe, "navbar-1").type = "Navbar"

\* list sent together with dashboard: the table wins
C8_Witness ==
    /\ Specified
    /\ SentTypes = {"list", "dashboard"}
    /\ HasComponent(Wireframe, "table-1")
    /\ HasComponent(Wireframe, "navbar-1")
    /\ ~HasComponent(Wireframe, "list-1")

\* the rules a type set triggers, in rule order:
\* 1 navbar, 2 login, 3 table/list, 4 form, 5 button
TriggeredRules(types) ==
    (IF "navbar" \in types \/ "dashboard" \in types THEN <<1>> ELSE <<>>)
    \o (IF "login" \in types THEN <<2>> ELSE <<>>)
    \o (IF "table" \in types \/ "list" \in types \/ "dashboard" \in types
        THEN <<3>> ELSE <<>>)
    \o (IF "form" \in types /\ "login" \notin types THEN <<4>> ELSE <<>>)
    \o (IF "button" \in types /\ "login" \notin types THEN <<5>> ELSE <<>>)

\* the rule a row comes from, by its leaves (0: none)
RuleOfRow(leaves) ==
    IF leaves = <<"navbar-1">> THEN 1
    ELSE IF leaves = <<"form-1", "button-1">> THEN 2
    ELSE IF leaves = <<"table-1">> \/ leaves = <<"list-1">> THEN 3
    ELSE IF leaves = <<"form-2">> THEN 4
    ELSE IF leaves = <<"button-2">> THEN 5
    ELSE 0

\* C9: the root container always has at least one child row; when no rule
\* triggers the layout is exactly one row of one empty span-12 column and
\* there are no components; otherwise there is no empty fallback row and the
\* rows are those of the triggered rules, in rule order.
C9_NeverChildlessFallbackOnlyWhenEmpty ==
    Specified =>
        LET rows == LeafRows(Wireframe.layout)
            triggered == TriggeredRules(SentTypes)
        IN  /\ Wireframe.layout.type = "container"
            /\ RowsWellFormed(Wireframe.layout)
            /\ Len(rows) >= 1
            /\ IF triggered = <<>>
               THEN /\ rows = << <<>> >>
                    /\ Wireframe.components = <<>>
               ELSE /\ Len(rows) = Len(triggered)
                    /\ \A r \in 1..Len(rows) : RuleOfRow(rows[r]) = triggered[r]

\* only types without a rule were sent
C9_Witness ==
    /\ Specified
    /\ SentTypes = {"unknown"}
    /\ LeafRows(Wireframe.layout) = << <<>> >>
    /\ Wireframe.components = <<>>

-----------------------------------------------------------------------------
(* Properties of the gate *)

Answered == response.status # 0

KeyRequired == AI_API_KEY # None /\ AI_API_KEY # <<>>

\* the header is the scheme "bearer", in any case, then a space
BearerScheme(hdr) ==
    /\ hdr # None
    /\ Len(hdr) >= 7
    /\ StrLower(SubSeq(hdr, 1, 6)) = <<"b","e","a","r","e","r">>
    /\ hdr[7] = " "

\* what follows the scheme, without the surrounding blanks
BearerToken(hdr) == StrStrip(SubSeq(hdr, 8, Len(hdr)))

\* C10: with AI_API_KEY set and non-empty, the core function runs only for
\* a request whose Authorization header is the bearer scheme with the key;
\* a missing header or one without the bearer scheme gets 401, a bearer
\* token other than the key gets 403, and neither runs the core; with
\* AI_API_KEY unset or empty no request is rejected for its header.
C10_ApiKeyGate ==
    Answered =>
        IF KeyRequired
        THEN /\ core # "none" =>
                    BearerScheme(authorization) /\ BearerToken(authorization) = AI_API_KEY
             /\ ~BearerScheme(authorization) =>
                    response.status = 401 /\ core = "none"
             /\ (BearerScheme(authorization) /\ BearerToken(authorization) # AI_API_KEY) =>
                    response.status = 403 /\ core = "none"
        ELSE /\ response.status \notin {401, 403}
             /\ \/ response.status = 200
                \/ /\ response.status = 422
                   /\ response.endpoint = "/interpret"
                   /\ PromptRequest(RawPrompt) = None
             /\ response.status = 200 => core # "none"

\* a wrong bearer token is turned away before the core
C10_Witness ==
    /\ Answered
    /\ KeyRequired
    /\ BearerScheme(authorization)
    /\ BearerToken(authorization) # AI_API_KEY
    /\ response.status = 403
    /\ core = "none"

-----------------------------------------------------------------------------
(* Two calls with the same set of types *)

\* the leaf ids of the layout, row by row and column by column
LeafStructure(layout) ==
    [r \in 1..Len(layout.children) |->
        [c \in 1..Len(layout.children[r].children) |->
            layout.children[r].children[c].children]]

\* C6: two calls whose inputs have the same set of types, whatever the
\* order, the duplicates or the values of the intents, return the same
\* components list and the same rows with the same leaf ids.
C6_StructureDependsOnTypeSetOnly ==
    (Specified /\ prev.called /\ prev.types = SentTypes) =>
        /\ Wireframe.components = prev.components
        /\ LeafStructure(Wireframe.layout) = prev.rows

\* the type of an earlier call of one intent sent again twice, once with a
\* value
C6_Witness ==
    /\ Specified
    /\ prev.called
    /\ prev.types = SentTypes
    /\ prev.n_intents = 1
    /\ Len(body_intents) = 2
    /\ body_intents[1].type = "dashboard"
    /\ body_intents[2].type = "dashboard"
    /\ body_intents[2].value # NoValue
    /\ Len(Wireframe.components) = 2

====
